---- MODULE Spec2Model ----
(***************************************************************************)
(* A model of auto_circuit: the latent pruning routine, the construction   *)
(* of the autoencoder transformer and the enumeration of the factorized    *)
(* graph's nodes (model_utils/autoencoder_transformer.py), and the edge    *)
(* pruning evaluator (prune.py).                                           *)
(*                                                                         *)
(* Each routine has its own specification over its own variables; the      *)
(* variables of the other routines are left unchanged.  Python lists are   *)
(* sequences indexed from 1, so latent, head and block positions are the   *)
(* source's 0-based positions plus one where they index a sequence.        *)
(* Optional[int] is a set: {} is None and {n} is the integer n.            *)
(***************************************************************************)
EXTENDS Integers, Sequences, FiniteSets, TLC

VARIABLES
    \* ---- AutoencoderTransformer._prune_latents_with_dataset
    pl_pc,                    \* position in the routine
    arg_max_latents,          \* the max_latents argument as passed by the caller
    max_latents,              \* the local max_latents (rebound at line 71)
    latent_total_act,         \* per autoencoder: sae.latent_total_act
    sae_pos,                  \* autoencoders already pruned by the loop of line 67
    activated_latent_counts,  \* line 66
    latent_counts,            \* line 66
    pruned_idxs,              \* per autoencoder: the idxs_to_keep given to prune_latents
    \* ---- factorized_src_nodes / factorized_dest_nodes
    fn,                       \* which enumeration runs: "src" or "dest"
    cfg,                      \* model.cfg
    n_latents,                \* per block: model.blocks[b].hook_mlp_out.n_latents
    layers, idxs,             \* the next value of the two itertools.count()
    layer,                    \* the local variable layer
    block_idx, head_idx, latent_idx,
    nodes,                    \* the set being built
    n_pc,                     \* position in the enumeration
    n_result,                 \* "none", "error" (an assert failed) or "returned"
    \* ---- run_pruned
    experiment_type,          \* [input_type, patch_type]
    test_edge_counts,         \* List[int]
    arg_prune_scores,         \* the caller's dict, as its items in iteration order
    prune_scores,             \* the local prune_scores (rebound at line 30)
    batch_idx,                \* batches the data loader has yielded
    batch_input,              \* which side of the batch feeds the model
    patch_outs,               \* which activations are the patch baseline
    patch_mask,               \* per edge: edge.patch_mask(model).data[edge.patch_idx]
    edge_idx,                 \* edges visited by the loop of line 59
    pruned_outs,              \* the defaultdict(list)
    r_pc,                     \* position in the evaluator
    r_result,                 \* "none", "error" or "returned"
    mask_writes,              \* history: per edge, assignments at line 62 in this batch
    \* ---- autoencoder_model
    sae_input, pythia_size, new_instance,
    caller_blocks,            \* the hook slots of the model the caller passed
    blocks,                   \* the hook slots of the model being modified
    sparse_autoencoders,      \* the local list of line 147
    layer_idx,
    a_pc,
    a_result,                 \* "none", "error" (the assert failed) or "returned"
    wrapper                   \* the AutoencoderTransformer that is returned

pruneVars == <<pl_pc, arg_max_latents, max_latents, latent_total_act, sae_pos,
               activated_latent_counts, latent_counts, pruned_idxs>>
nodeVars  == <<fn, cfg, n_latents, layers, idxs, layer, block_idx, head_idx,
               latent_idx, nodes, n_pc, n_result>>
runVars   == <<experiment_type, test_edge_counts, arg_prune_scores, prune_scores, batch_idx,
               batch_input, patch_outs, patch_mask, edge_idx, pruned_outs,
               r_pc, r_result, mask_writes>>
aeVars    == <<sae_input, pythia_size, new_instance, caller_blocks, blocks,
               sparse_autoencoders, layer_idx, a_pc, a_result, wrapper>>
vars == <<pruneVars, nodeVars, runVars, aeVars>>

(***************************************************************************)
(* Bounds.                                                                 *)
(***************************************************************************)
MaxSaes == 2        \* autoencoders of the pruned model
NumLatents == 3     \* latents of each autoencoder before pruning
MaxAct == 2         \* largest cumulative activation of a latent
MaxLayers == 2      \* blocks of the model whose nodes are enumerated
MaxHeads == 2       \* attention heads per block
MaxBlockLatents == 2 \* retained latents of a block's autoencoder
MaxEdges == 3       \* scored edges
MaxScore == 1       \* largest prune score
MaxCounts == 2      \* length of test_edge_counts
MaxBatches == 2     \* batches of the data loader
MaxAeLayers == 3    \* blocks of the model given to autoencoder_model

(***************************************************************************)
(* Python and torch primitives.                                            *)
(***************************************************************************)
None == {}
Some(n) == {n}
Val(o) == CHOOSE n \in o : TRUE

Min(a, b) == IF a <= b THEN a ELSE b
Max(a, b) == IF a >= b THEN a ELSE b
Range(s) == {s[i] : i \in DOMAIN s}

\* Python's `a or b` on an Optional[int]: b when a is None or 0.
PyOr(a, b) == IF a = None \/ a = Some(0) THEN Some(b) ELSE a

\* Python's s[:k]: the first k elements, all but the last -k for a negative k.
PySlice(s, k) ==
    LET stop == IF k >= 0 THEN Min(k, Len(s)) ELSE Max(Len(s) + k, 0)
    IN  SubSeq(s, 1, stop)

\* (sae.latent_total_act > 0).sum(dim=-1).tolist() for a 1-d latent_total_act.
ActivatedCount(act) == Cardinality({j \in DOMAIN act : act[j] > 0})

\* t.sort(act, dim=-1, descending=True).indices: torch.sort is called without
\* stable=True, so the order of equal elements is not determined; every order
\* of the indices that is descending in act is a possible result.
SortedIndices(act) ==
    {p \in [DOMAIN act -> DOMAIN act] :
        /\ \A i, j \in DOMAIN act : i # j => p[i] # p[j]
        /\ \A i \in DOMAIN act : i + 1 \in DOMAIN act => act[p[i]] >= act[p[i + 1]]}

(***************************************************************************)
(* The initial values of the other routines' variables.                    *)
(***************************************************************************)
PruneIdle ==
    /\ pl_pc = "idle" /\ arg_max_latents = None /\ max_latents = None
    /\ latent_total_act = <<>> /\ sae_pos = 0
    /\ activated_latent_counts = <<>> /\ latent_counts = <<>> /\ pruned_idxs = <<>>

NodesIdle ==
    /\ fn = "none" /\ cfg = [n_layers |-> 0] /\ n_latents = <<>>
    /\ layers = 0 /\ idxs = 0 /\ layer = 0
    /\ block_idx = 0 /\ head_idx = 0 /\ latent_idx = 0
    /\ nodes = {} /\ n_pc = "idle" /\ n_result = "none"

RunIdle ==
    /\ experiment_type = [input_type |-> "CLEAN", patch_type |-> "CLEAN"]
    /\ test_edge_counts = <<>> /\ arg_prune_scores = <<>> /\ prune_scores = <<>>
    /\ batch_idx = 0
    /\ batch_input = "none" /\ patch_outs = "none" /\ patch_mask = <<>>
    /\ edge_idx = 0 /\ pruned_outs = <<>> /\ r_pc = "idle" /\ r_result = "none"
    /\ mask_writes = <<>>

AeIdle ==
    /\ sae_input = "none" /\ pythia_size = None /\ new_instance = FALSE
    /\ caller_blocks = <<>> /\ blocks = <<>> /\ sparse_autoencoders = <<>>
    /\ layer_idx = 0 /\ a_pc = "idle" /\ a_result = "none"
    /\ wrapper = [wrapped_model |-> <<>>, sparse_autoencoders |-> <<>>]

(***************************************************************************)
(* AutoencoderTransformer._prune_latents_with_dataset                      *)
(***************************************************************************)
\* The routine is entered on a wrapper of 1..MaxSaes autoencoders whose
\* counters are zero, with max_latents None or an integer, and with
\* seq_len=None: latent_total_act is 1-d and `activated` an int (line 70).
PruneInit ==
    /\ pl_pc = "start"
    /\ arg_max_latents \in {None} \cup {Some(n) : n \in -1 .. NumLatents + 1}
    /\ max_latents = arg_max_latents
    /\ \E n \in 1 .. MaxSaes :
          latent_total_act = [s \in 1 .. n |-> [j \in 1 .. NumLatents |-> 0]]
    /\ sae_pos = 0
    /\ activated_latent_counts = <<>>
    /\ latent_counts = <<>>
    /\ pruned_idxs = <<>>
    /\ NodesIdle /\ RunIdle /\ AeIdle

\* Lines 47-64: the counters are reset and the dataset is run one prompt at a
\* time; each autoencoder accumulates its latents' activations as a side
\* effect of the forward passes, to any pattern of counts.
RunDataset ==
    /\ pl_pc = "start"
    /\ latent_total_act' \in
          [DOMAIN latent_total_act -> [1 .. NumLatents -> 0 .. MaxAct]]
    /\ pl_pc' = "prune"
    /\ UNCHANGED <<arg_max_latents, max_latents, sae_pos, activated_latent_counts,
                   latent_counts, pruned_idxs>>
    /\ UNCHANGED <<nodeVars, runVars, aeVars>>

\* Lines 67-75: one iteration of the loop over self.sparse_autoencoders.
PruneSae ==
    /\ pl_pc = "prune"
    /\ sae_pos < Len(latent_total_act)
    /\ LET act == latent_total_act[sae_pos + 1]
           activated == ActivatedCount(act)
           activated_count == activated
           new_max == PyOr(max_latents, activated_count)
           max_idx == Min(Val(new_max), activated_count)
       IN  /\ activated_latent_counts' = Append(activated_latent_counts, activated)
           /\ max_latents' = new_max
           /\ latent_counts' = Append(latent_counts, max_idx)
           /\ \E sorted_latents \in SortedIndices(act) :
                 pruned_idxs' = Append(pruned_idxs, PySlice(sorted_latents, max_idx))
    /\ sae_pos' = sae_pos + 1
    /\ UNCHANGED <<pl_pc, arg_max_latents, latent_total_act>>
    /\ UNCHANGED <<nodeVars, runVars, aeVars>>

\* Lines 77-99: the pruned model is run on the dataset and the counts and the
\* KL divergence are printed; no autoencoder changes.
TestPruned ==
    /\ pl_pc = "prune"
    /\ sae_pos = Len(latent_total_act)
    /\ pl_pc' = "done"
    /\ UNCHANGED <<arg_max_latents, max_latents, latent_total_act, sae_pos,
                   activated_latent_counts, latent_counts, pruned_idxs>>
    /\ UNCHANGED <<nodeVars, runVars, aeVars>>

PruneNext == RunDataset \/ PruneSae \/ TestPruned

SpecPrune == PruneInit /\ [][PruneNext]_vars

\* C1: with max_latents = None every autoencoder the loop has pruned retains
\* exactly as many latents as it has latents with nonzero cumulative
\* activation, whatever the autoencoders before it activated.
C1_NoneKeepsActivated ==
    arg_max_latents = None =>
        \A s \in 1 .. sae_pos :
            Len(pruned_idxs[s]) = ActivatedCount(latent_total_act[s])

\* The k indices of act with the highest activation, equal activations taken
\* in index order.
IsTopByIndexOrder(kept, act, k) ==
    /\ Len(kept) = k
    /\ \A i, j \in DOMAIN kept : i < j =>
          \/ act[kept[i]] > act[kept[j]]
          \/ act[kept[i]] = act[kept[j]] /\ kept[i] < kept[j]
    /\ \A j \in DOMAIN act \ Range(kept) : \A i \in DOMAIN kept :
          \/ act[kept[i]] > act[j]
          \/ act[kept[i]] = act[j] /\ kept[i] < j

\* C2: with an integer cap (0 included) smaller than an autoencoder's
\* activated count, the autoencoder retains exactly cap latents: those with
\* the highest cumulative activation, ties broken by original index order.
C2_CapKeepsTop ==
    \A s \in 1 .. sae_pos :
        (/\ arg_max_latents # None
         /\ Val(arg_max_latents) >= 0
         /\ Val(arg_max_latents) < ActivatedCount(latent_total_act[s]))
        => IsTopByIndexOrder(pruned_idxs[s], latent_total_act[s], Val(arg_max_latents))

(***************************************************************************)
(* factorized_src_nodes and factorized_dest_nodes                          *)
(***************************************************************************)
Name(kind, b, pos) == [kind |-> kind, block |-> b, pos |-> pos]
Module(b, hook) == [block |-> b, hook |-> hook]

\* nodes.add(n): a node's identity is its name.
AddNode(S, n) == IF \E m \in S : m.name = n.name THEN S ELSE S \cup {n}

\* Lines 166-171: the asserts of factorized_src_nodes.
SrcAssertsHold(c) ==
    /\ c.use_attn_result
    /\ c.use_attn_in
    /\ c.use_split_qkv_input
    /\ c.use_hook_mlp_in

\* DestAssertsHold without the assert of use_hook_mlp_in.
DestAssertsMutant(c) == c.use_attn_result /\ c.use_attn_in

\* Lines 219-224: the asserts of factorized_dest_nodes; the assert of
\* use_split_qkv_input is commented out.
DestAssertsHold(c) ==
    /\ c.use_attn_result
    /\ c.use_attn_in
    /\ c.use_hook_mlp_in

\* Lines 175-181.
ResidStartNode(l, i) ==
    [name |-> Name("Resid Start", 0, 0), module_name |-> Module(0, "hook_resid_pre"),
     layer |-> l, idx |-> i, head_dim |-> None, head_idx |-> None,
     weight |-> Module(0, "embed.W_E"), weight_head_dim |-> None]

\* SrcHeadNode with idx=head_idx in place of idx=next(idxs).
SrcHeadNodeMutant(b, h, l, i) ==
    [name |-> Name("A", b, h), module_name |-> Module(b, "attn.hook_result"),
     layer |-> l, idx |-> h, head_dim |-> Some(2), head_idx |-> Some(h),
     weight |-> Module(b, "attn.W_O"), weight_head_dim |-> Some(0)]

\* Lines 188-197.
SrcHeadNode(b, h, l, i) ==
    [name |-> Name("A", b, h), module_name |-> Module(b, "attn.hook_result"),
     layer |-> l, idx |-> i, head_dim |-> Some(2), head_idx |-> Some(h),
     weight |-> Module(b, "attn.W_O"), weight_head_dim |-> Some(0)]

\* Lines 202-211.
SrcLatentNode(b, k, l, i) ==
    [name |-> Name("MLP Latent", b, k),
     module_name |-> Module(b, "hook_mlp_out.latent_outs"),
     layer |-> l, idx |-> i, head_dim |-> Some(2), head_idx |-> Some(k),
     weight |-> Module(b, "hook_mlp_out.decoder.weight"), weight_head_dim |-> Some(0)]

\* Lines 231-238.
DestHeadNode(b, h, l, i) ==
    [name |-> Name("A", b, h), module_name |-> Module(b, "hook_attn_in"),
     layer |-> l, idx |-> i, head_dim |-> Some(2), head_idx |-> Some(h),
     weight |-> None, weight_head_dim |-> None]

\* Lines 241-247.
DestMlpNode(b, l, i) ==
    [name |-> Name("MLP", b, 0), module_name |-> Module(b, "hook_mlp_in"),
     layer |-> l, idx |-> i, head_dim |-> None, head_idx |-> None,
     weight |-> Some(Module(b, "mlp.W_in")), weight_head_dim |-> None]

\* Lines 250-256.
ResidEndNode(n, l, i) ==
    [name |-> Name("Resid End", 0, 0), module_name |-> Module(n - 1, "hook_resid_post"),
     layer |-> l, idx |-> i, head_dim |-> None, head_idx |-> None,
     weight |-> Some(Module(0, "unembed.W_U")), weight_head_dim |-> None]

Flags == [use_attn_result : BOOLEAN, use_attn_in : BOOLEAN,
          use_split_qkv_input : BOOLEAN, use_hook_mlp_in : BOOLEAN]

\* Either enumeration is called on a model of 0..MaxLayers blocks with
\* 0..MaxHeads heads, each block's autoencoder holding 0..MaxBlockLatents
\* latents, with any setting of the flags of model.cfg.
NodesInit ==
    /\ fn \in {"src", "dest"}
    /\ \E nl \in 0 .. MaxLayers, nh \in 0 .. MaxHeads, par \in BOOLEAN, f \in Flags :
          /\ cfg = [n_layers |-> nl, n_heads |-> nh, parallel_attn_mlp |-> par,
                    use_attn_result |-> f.use_attn_result,
                    use_attn_in |-> f.use_attn_in,
                    use_split_qkv_input |-> f.use_split_qkv_input,
                    use_hook_mlp_in |-> f.use_hook_mlp_in]
          /\ n_latents \in [1 .. nl -> 0 .. MaxBlockLatents]
    /\ layers = 0 /\ idxs = 0 /\ layer = 0
    /\ block_idx = 0 /\ head_idx = 0 /\ latent_idx = 0
    /\ nodes = {}
    /\ n_pc = "start"
    /\ n_result = "none"
    /\ PruneIdle /\ RunIdle /\ AeIdle

\* Lines 166-182: the asserts, the two counters from 0, the "Resid Start" node.
SrcStart ==
    /\ n_pc = "start" /\ fn = "src"
    /\ IF SrcAssertsHold(cfg)
       THEN /\ nodes' = AddNode({}, ResidStartNode(0, 0))
            /\ layers' = 1 /\ idxs' = 1
            /\ block_idx' = 0
            /\ n_pc' = "block"
            /\ UNCHANGED n_result
       ELSE /\ n_result' = "error"
            /\ n_pc' = "done"
            /\ UNCHANGED <<nodes, layers, idxs, block_idx>>
    /\ UNCHANGED <<fn, cfg, n_latents, layer, head_idx, latent_idx>>
    /\ UNCHANGED <<pruneVars, runVars, aeVars>>

\* Lines 184-185 and 213: the next block is entered, or the set is returned.
SrcBlock ==
    /\ n_pc = "block" /\ fn = "src"
    /\ IF block_idx < cfg.n_layers
       THEN /\ layer' = layers
            /\ layers' = layers + 1
            /\ head_idx' = 0
            /\ n_pc' = "heads"
            /\ UNCHANGED n_result
       ELSE /\ n_result' = "returned"
            /\ n_pc' = "done"
            /\ UNCHANGED <<layer, layers, head_idx>>
    /\ UNCHANGED <<fn, cfg, n_latents, idxs, block_idx, latent_idx, nodes>>
    /\ UNCHANGED <<pruneVars, runVars, aeVars>>

\* Lines 186-199: one attention head's node; after the last head the layer
\* of the block's latents is chosen.
SrcHead ==
    /\ n_pc = "heads" /\ fn = "src"
    /\ IF head_idx < cfg.n_heads
       THEN /\ nodes' = AddNode(nodes, SrcHeadNode(block_idx, head_idx, layer, idxs))
            /\ idxs' = idxs + 1
            /\ head_idx' = head_idx + 1
            /\ UNCHANGED <<layer, layers, latent_idx, n_pc>>
       ELSE /\ layer' = IF cfg.parallel_attn_mlp THEN layer ELSE layers
            /\ layers' = IF cfg.parallel_attn_mlp THEN layers ELSE layers + 1
            /\ latent_idx' = 0
            /\ n_pc' = "latents"
            /\ UNCHANGED <<nodes, idxs, head_idx>>
    /\ UNCHANGED <<fn, cfg, n_latents, block_idx, n_result>>
    /\ UNCHANGED <<pruneVars, runVars, aeVars>>

\* Lines 200-212: one latent's node; after the last latent the block ends.
SrcLatent ==
    /\ n_pc = "latents" /\ fn = "src"
    /\ IF latent_idx < n_latents[block_idx + 1]
       THEN /\ nodes' = AddNode(nodes, SrcLatentNode(block_idx, latent_idx, layer, idxs))
            /\ idxs' = idxs + 1
            /\ latent_idx' = latent_idx + 1
            /\ UNCHANGED <<block_idx, n_pc>>
       ELSE /\ block_idx' = block_idx + 1
            /\ n_pc' = "block"
            /\ UNCHANGED <<nodes, idxs, latent_idx>>
    /\ UNCHANGED <<fn, cfg, n_latents, layers, layer, head_idx, n_result>>
    /\ UNCHANGED <<pruneVars, runVars, aeVars>>

\* Lines 219-226: the asserts, layers counting from 1 and idxs from 0.
DestStart ==
    /\ n_pc = "start" /\ fn = "dest"
    /\ IF DestAssertsHold(cfg)
       THEN /\ layers' = 1 /\ idxs' = 0
            /\ nodes' = {}
            /\ block_idx' = 0
            /\ n_pc' = "block"
            /\ UNCHANGED n_result
       ELSE /\ n_result' = "error"
            /\ n_pc' = "done"
            /\ UNCHANGED <<nodes, layers, idxs, block_idx>>
    /\ UNCHANGED <<fn, cfg, n_latents, layer, head_idx, latent_idx>>
    /\ UNCHANGED <<pruneVars, runVars, aeVars>>

\* Lines 227-228 and 249-258: the next block is entered, or the "Resid End"
\* node is added and the set returned.
DestBlock ==
    /\ n_pc = "block" /\ fn = "dest"
    /\ IF block_idx < cfg.n_layers
       THEN /\ layer' = layers
            /\ layers' = layers + 1
            /\ head_idx' = 0
            /\ n_pc' = "heads"
            /\ UNCHANGED <<nodes, idxs, n_result>>
       ELSE /\ nodes' = AddNode(nodes, ResidEndNode(cfg.n_layers, layers, idxs))
            /\ layers' = layers + 1
            /\ idxs' = idxs + 1
            /\ n_result' = "returned"
            /\ n_pc' = "done"
            /\ UNCHANGED <<layer, head_idx>>
    /\ UNCHANGED <<fn, cfg, n_latents, block_idx, latent_idx>>
    /\ UNCHANGED <<pruneVars, runVars, aeVars>>

\* Lines 229-248: one attention head's node; after the last head the block's
\* MLP node, on the same layer or the next.
DestHead ==
    /\ n_pc = "heads" /\ fn = "dest"
    /\ IF head_idx < cfg.n_heads
       THEN /\ nodes' = AddNode(nodes, DestHeadNode(block_idx, head_idx, layer, idxs))
            /\ idxs' = idxs + 1
            /\ head_idx' = head_idx + 1
            /\ UNCHANGED <<layers, block_idx, n_pc>>
       ELSE /\ nodes' = AddNode(nodes,
                  DestMlpNode(block_idx,
                              IF cfg.parallel_attn_mlp THEN layer ELSE layers, idxs))
            /\ layers' = IF cfg.parallel_attn_mlp THEN layers ELSE layers + 1
            /\ idxs' = idxs + 1
            /\ block_idx' = block_idx + 1
            /\ n_pc' = "block"
            /\ UNCHANGED head_idx
    /\ UNCHANGED <<fn, cfg, n_latents, layer, latent_idx, n_result>>
    /\ UNCHANGED <<pruneVars, runVars, aeVars>>

NodesNext ==
    SrcStart \/ SrcBlock \/ SrcHead \/ SrcLatent \/ DestStart \/ DestBlock \/ DestHead

SpecNodes == NodesInit /\ [][NodesNext]_vars

AllFlags(c) ==
    c.use_attn_result /\ c.use_attn_in /\ c.use_split_qkv_input /\ c.use_hook_mlp_in

RECURSIVE SumTo(_, _)
SumTo(f, n) == IF n = 0 THEN 0 ELSE f[n] + SumTo(f, n - 1)

Returned == n_pc = "done" /\ n_result = "returned"

\* C3: with every flag set, the returned source set holds one node per head and
\* per latent of every block and the "Resid Start" node, that is
\* 1 + n_layers*(n_heads + latents_per_layer) nodes when every block has the
\* same number of latents; the returned destination set holds
\* n_layers*(n_heads + 1) + 1 nodes; and in either set the nodes' idx are
\* pairwise different and are exactly 0 .. size-1.
C3_NodeCounts ==
    (Returned /\ AllFlags(cfg)) =>
        /\ fn = "src" =>
              /\ Cardinality(nodes)
                    = 1 + cfg.n_layers * cfg.n_heads + SumTo(n_latents, cfg.n_layers)
              /\ \A L \in 0 .. MaxBlockLatents + 1 :
                    (\A b \in DOMAIN n_latents : n_latents[b] = L) =>
                        Cardinality(nodes) = 1 + cfg.n_layers * (cfg.n_heads + L)
        /\ fn = "dest" =>
              Cardinality(nodes) = cfg.n_layers * (cfg.n_heads + 1) + 1
        /\ \A m, n \in nodes : m # n => m.idx # n.idx
        /\ {n.idx : n \in nodes} = 0 .. Cardinality(nodes) - 1

\* C3's case: both enumerations return on a model of two or more blocks with
\* heads and latents.
C3_Witness ==
    /\ Returned /\ AllFlags(cfg)
    /\ cfg.n_layers >= 2 /\ cfg.n_heads >= 2
    /\ \A b \in DOMAIN n_latents : n_latents[b] >= 1
    /\ Cardinality(nodes) >= 7

\* C4 as stated: either enumeration fails, returning no node set, whenever
\* one of the four flags is absent.
C4_AllFourFlagsRequired ==
    (n_pc = "done" /\ ~AllFlags(cfg)) => n_result = "error"

\* C4 as the code has it: factorized_src_nodes fails whenever one of the four
\* flags is absent; factorized_dest_nodes fails whenever use_attn_result,
\* use_attn_in or use_hook_mlp_in is absent, and does not look at
\* use_split_qkv_input: with the other three set it returns its node set.
C4_FlagsRequired ==
    n_pc = "done" =>
        /\ (fn = "src" /\ ~AllFlags(cfg)) => n_result = "error" /\ nodes = {}
        /\ (fn = "dest" /\ ~(cfg.use_attn_result /\ cfg.use_attn_in /\ cfg.use_hook_mlp_in))
              => n_result = "error" /\ nodes = {}
        /\ (fn = "dest" /\ cfg.use_attn_result /\ cfg.use_attn_in /\ cfg.use_hook_mlp_in)
              => n_result = "returned"
        /\ (fn = "src" /\ AllFlags(cfg)) => n_result = "returned"

\* C4's cases: an enumeration has failed on a model lacking one flag only.
C4_Witness ==
    /\ n_pc = "done" /\ n_result = "error" /\ fn = "dest"
    /\ cfg.use_attn_result /\ cfg.use_attn_in /\ cfg.use_split_qkv_input
    /\ ~cfg.use_hook_mlp_in

(***************************************************************************)
(* run_pruned                                                              *)
(***************************************************************************)
\* The members of ActType, and a value that is none of them.
ActTypes == {"CLEAN", "CORRUPT", "ZERO"}
AnyType == ActTypes \cup {"OTHER"}

SeqsUpTo(S, n) == UNION {[1 .. k -> S] : k \in 0 .. n}

\* InsertDesc placing x in front of the items of equal score.
InsertUnstable(s, x) ==
    LET before == {i \in DOMAIN s : s[i].score > x.score}
        k == Cardinality(before)
    IN  SubSeq(s, 1, k) \o <<x>> \o SubSeq(s, k + 1, Len(s))

\* One step of sorted(..., key=score, reverse=True): x goes behind every item
\* already placed whose score is not smaller, so equal scores keep their order.
InsertDesc(s, x) ==
    LET before == {i \in DOMAIN s : s[i].score >= x.score}
        k == Cardinality(before)
    IN  SubSeq(s, 1, k) \o <<x>> \o SubSeq(s, k + 1, Len(s))

RECURSIVE SortPrefix(_, _)
SortPrefix(ps, n) == IF n = 0 THEN <<>> ELSE InsertDesc(SortPrefix(ps, n - 1), ps[n])

\* Line 30: dict(sorted(prune_scores.items(), key=lambda x: x[1], reverse=True)).
SortedScores(ps) == SortPrefix(ps, Len(ps))

\* InTestEdgeCounts testing edge_idx in place of n_edge.
InTestEdgeCountsMutant(n, tec) == n - 1 \in Range(tec)

\* Lines 41 and 63: `n in test_edge_counts`.
InTestEdgeCounts(n, tec) == n \in Range(tec)

\* Lines 43 and 66: pruned_outs[k].append(out) on the defaultdict(list).
RecordOut(po, k, out) ==
    [c \in DOMAIN po \cup {k} |->
        IF c = k THEN Append(IF k \in DOMAIN po THEN po[k] ELSE <<>>, out) ELSE po[c]]

\* SetMask zeroing the other edges' masks.
SetMaskMutantClear(mask, e) == [x \in DOMAIN mask |-> IF x = e THEN 1 ELSE 0]
\* SetMask leaving out the edge at position 1 of the caller's dict.
SetMaskMutantSkip(mask, e) == IF e = 1 THEN mask ELSE [mask EXCEPT ![e] = 1]

\* Line 62: edge.patch_mask(model).data[edge.patch_idx] = 1.
SetMask(mask, e) == [mask EXCEPT ![e] = 1]

\* Line 58, reset_mask=True: every patch mask is zeroed as patch mode is entered.
ResetMask(mask) == [e \in DOMAIN mask |-> 0]

\* model(batch_input): what the forward pass computes is fixed by the batch,
\* the side of it that is fed in and, in patch mode, the edges whose mask is 1
\* and the baseline they carry in place of the current activation.
ModelOutput(b, input, patching, patch, mask) ==
    [batch |-> b, input |-> input,
     patch |-> IF patching THEN patch ELSE "none",
     patched |-> IF patching THEN {e \in DOMAIN mask : mask[e] = 1} ELSE {}]

\* An output equals the unmodified forward pass on side `input` of batch b when
\* no edge is patched or the edges are patched with the activations of the
\* same input; a patched edge carries the baseline, an unpatched one the
\* current activation.
IsUnmodified(o, b, input) ==
    /\ o.batch = b /\ o.input = input
    /\ o.patched = {} \/ o.patch = o.input

\* PatchTypeAssert without the assert.
PatchTypeAssertMutant(t) == TRUE

\* Line 51: assert experiment_type.patch_type == ActType.ZERO.
PatchTypeAssert(t) == t = "ZERO"

\* run_pruned is called with any experiment type, up to MaxCounts requested
\* checkpoints, and scores for 0..MaxEdges edges; an edge is named by its
\* position in the caller's dict.  The model's patch masks are zero.
RunInit ==
    /\ experiment_type \in [input_type : AnyType, patch_type : AnyType]
    /\ test_edge_counts \in SeqsUpTo(0 .. MaxEdges + 1, MaxCounts)
    /\ \E n \in 0 .. MaxEdges : \E sc \in [1 .. n -> 0 .. MaxScore] :
          arg_prune_scores = [i \in 1 .. n |-> [edge |-> i, score |-> sc[i]]]
    /\ prune_scores = arg_prune_scores
    /\ batch_idx = 0
    /\ batch_input = "none"
    /\ patch_outs = "none"
    /\ patch_mask = [e \in DOMAIN arg_prune_scores |-> 0]
    /\ mask_writes = [e \in DOMAIN arg_prune_scores |-> 0]
    /\ edge_idx = 0
    /\ pruned_outs = [k \in {} |-> <<>>]
    /\ r_pc = "start"
    /\ r_result = "none"
    /\ PruneIdle /\ NodesIdle /\ AeIdle

\* Lines 28-30.
SortScores ==
    /\ r_pc = "start"
    /\ prune_scores' = SortedScores(prune_scores)
    /\ r_pc' = "next_batch"
    /\ UNCHANGED <<experiment_type, test_edge_counts, arg_prune_scores, batch_idx,
                   batch_input, patch_outs, patch_mask, edge_idx, pruned_outs,
                   r_result, mask_writes>>
    /\ UNCHANGED <<pruneVars, nodeVars, aeVars>>

\* Lines 32-43: the data loader yields a batch; the input side is chosen, or
\* NotImplementedError is raised; checkpoint 0 is recorded outside patch mode.
BeginBatch ==
    /\ r_pc = "next_batch"
    /\ batch_idx < MaxBatches
    /\ batch_idx' = batch_idx + 1
    /\ IF experiment_type.input_type \in {"CLEAN", "CORRUPT"}
       THEN /\ batch_input' = experiment_type.input_type
            /\ pruned_outs' =
                  IF InTestEdgeCounts(0, test_edge_counts)
                  THEN RecordOut(pruned_outs, 0,
                          ModelOutput(batch_idx', batch_input', FALSE, "none", patch_mask))
                  ELSE pruned_outs
            /\ r_pc' = "patch_outs"
            /\ UNCHANGED r_result
       ELSE /\ r_result' = "error"
            /\ r_pc' = "done"
            /\ UNCHANGED <<batch_input, pruned_outs>>
    /\ UNCHANGED <<experiment_type, test_edge_counts, arg_prune_scores, prune_scores,
                   patch_outs, patch_mask, edge_idx, mask_writes>>
    /\ UNCHANGED <<pruneVars, nodeVars, aeVars>>

\* Lines 45-56: the patch baseline, or the assert of line 51 fails.
ComputePatchOuts ==
    /\ r_pc = "patch_outs"
    /\ IF experiment_type.patch_type \in {"CLEAN", "CORRUPT"}
       THEN /\ patch_outs' = experiment_type.patch_type
            /\ r_pc' = "enter_patch"
            /\ UNCHANGED r_result
       ELSE IF PatchTypeAssert(experiment_type.patch_type)
       THEN /\ patch_outs' = "ZERO"
            /\ r_pc' = "enter_patch"
            /\ UNCHANGED r_result
       ELSE /\ r_result' = "error"
            /\ r_pc' = "done"
            /\ UNCHANGED patch_outs
    /\ UNCHANGED <<experiment_type, test_edge_counts, arg_prune_scores, prune_scores,
                   batch_idx, batch_input, patch_mask, edge_idx, pruned_outs,
                   mask_writes>>
    /\ UNCHANGED <<pruneVars, nodeVars, aeVars>>

\* Line 58: patch mode is entered with reset_mask=True.
EnterPatchMode ==
    /\ r_pc = "enter_patch"
    /\ patch_mask' = ResetMask(patch_mask)
    /\ mask_writes' = [e \in DOMAIN mask_writes |-> 0]
    /\ edge_idx' = 0
    /\ r_pc' = "edges"
    /\ UNCHANGED <<experiment_type, test_edge_counts, arg_prune_scores, prune_scores,
                   batch_idx, batch_input, patch_outs, pruned_outs, r_result>>
    /\ UNCHANGED <<pruneVars, nodeVars, aeVars>>

\* Lines 59-66: one iteration of the loop over prune_scores.keys().
PatchEdge ==
    /\ r_pc = "edges"
    /\ edge_idx < Len(prune_scores)
    /\ LET edge == prune_scores[edge_idx + 1].edge
           n_edge == edge_idx + 1
       IN  /\ patch_mask' = SetMask(patch_mask, edge)
           /\ mask_writes' = [mask_writes EXCEPT ![edge] = @ + 1]
           /\ pruned_outs' =
                 IF InTestEdgeCounts(n_edge, test_edge_counts)
                 THEN RecordOut(pruned_outs, n_edge,
                         ModelOutput(batch_idx, batch_input, TRUE, patch_outs, patch_mask'))
                 ELSE pruned_outs
    /\ edge_idx' = edge_idx + 1
    /\ UNCHANGED <<experiment_type, test_edge_counts, arg_prune_scores, prune_scores,
                   batch_idx, batch_input, patch_outs, r_pc, r_result>>
    /\ UNCHANGED <<pruneVars, nodeVars, aeVars>>

\* Lines 67-71: the loop is over, patch mode is left and the batch's tensors
\* are deleted.
EndBatch ==
    /\ r_pc = "edges"
    /\ edge_idx = Len(prune_scores)
    /\ patch_outs' = "none"
    /\ r_pc' = "next_batch"
    /\ UNCHANGED <<experiment_type, test_edge_counts, arg_prune_scores, prune_scores,
                   batch_idx, batch_input, patch_mask, edge_idx, pruned_outs,
                   r_result, mask_writes>>
    /\ UNCHANGED <<pruneVars, nodeVars, aeVars>>

\* Lines 32 and 72: the data loader is exhausted and pruned_outs is returned.
Return ==
    /\ r_pc = "next_batch"
    /\ r_result' = "returned"
    /\ r_pc' = "done"
    /\ UNCHANGED <<experiment_type, test_edge_counts, arg_prune_scores, prune_scores,
                   batch_idx, batch_input, patch_outs, patch_mask, edge_idx,
                   pruned_outs, mask_writes>>
    /\ UNCHANGED <<pruneVars, nodeVars, aeVars>>

RunNext ==
    SortScores \/ BeginBatch \/ ComputePatchOuts \/ EnterPatchMode \/ PatchEdge
        \/ EndBatch \/ Return

SpecRun == RunInit /\ [][RunNext]_vars

NumEdges == Len(arg_prune_scores)
AllEdges == 1 .. NumEdges
FirstEdges(k) == {prune_scores[i].edge : i \in 1 .. k}

\* C5 as stated: for every experiment type, each output recorded for the
\* checkpoint equal to the number of scored edges equals the unmodified
\* forward pass on the chosen input of its batch.
C5_FullCheckpointUnmodified ==
    NumEdges \in DOMAIN pruned_outs =>
        \A b \in DOMAIN pruned_outs[NumEdges] :
            IsUnmodified(pruned_outs[NumEdges][b], b, experiment_type.input_type)

\* C5 as the code has it: the output recorded for the checkpoint equal to the
\* number N of scored edges is the forward pass on the chosen input with every
\* scored edge patched (mask 1) with the baseline of the patch type; it equals
\* the unmodified forward pass on the chosen input exactly when N = 0 or the
\* patch type is the input type.
C5_FullCheckpointPatched ==
    NumEdges \in DOMAIN pruned_outs =>
        \A b \in DOMAIN pruned_outs[NumEdges] :
            LET o == pruned_outs[NumEdges][b]
            IN  /\ o.batch = b /\ o.input = experiment_type.input_type
                /\ NumEdges >= 1 =>
                      /\ o.patched = AllEdges
                      /\ o.patch = experiment_type.patch_type
                /\ IsUnmodified(o, b, experiment_type.input_type)
                      <=> (NumEdges = 0
                           \/ experiment_type.patch_type = experiment_type.input_type)

\* C5's case: the full checkpoint of two edges has been recorded in the second
\* batch of a run that feeds the corrupt input and patches in clean activations.
C5_Witness ==
    /\ NumEdges = 2 /\ NumEdges \in DOMAIN pruned_outs
    /\ Len(pruned_outs[NumEdges]) = 2
    /\ experiment_type = [input_type |-> "CORRUPT", patch_type |-> "CLEAN"]

ValidTypes ==
    /\ experiment_type.input_type \in {"CLEAN", "CORRUPT"}
    /\ experiment_type.patch_type \in ActTypes

\* C6: when run_pruned has returned after B >= 1 batches, the keys of the
\* result are exactly the requested checkpoints c with 0 <= c <= N, each key
\* holds B outputs, the b-th of batch b, however often c is listed; a
\* requested checkpoint above N is absent and raises no error.
C6_ResultKeys ==
    /\ (r_result = "returned" /\ batch_idx >= 1) =>
          /\ DOMAIN pruned_outs
                = {c \in Range(test_edge_counts) : 0 <= c /\ c <= NumEdges}
          /\ \A c \in DOMAIN pruned_outs :
                /\ Len(pruned_outs[c]) = batch_idx
                /\ \A b \in 1 .. batch_idx : pruned_outs[c][b].batch = b
    /\ (r_pc = "done" /\ ValidTypes) => r_result = "returned"

\* C6's case: two batches, a checkpoint listed twice and one above N.
C6_Witness ==
    /\ r_result = "returned" /\ batch_idx = 2 /\ NumEdges = 1
    /\ test_edge_counts = <<1, 1>>

\* s holds the items of ps by descending score, equal scores in the order of ps.
IsStableDescOf(s, ps) ==
    /\ Len(s) = Len(ps)
    /\ \A i \in DOMAIN s : s[i].edge \in DOMAIN ps /\ s[i] = ps[s[i].edge]
    /\ \A i, j \in DOMAIN s : i < j =>
          \/ s[i].score > s[j].score
          \/ s[i].score = s[j].score /\ s[i].edge < s[j].edge

\* C7: once sorted, prune_scores holds the caller's items by descending score
\* with equal scores in the caller's order; it is not changed again, so every
\* batch uses that order; and every output recorded for a checkpoint k >= 1
\* was computed with the masks of exactly the first k edges of the order at 1.
C7_ActivationOrder ==
    /\ [](r_pc \notin {"idle", "start"} => IsStableDescOf(prune_scores, arg_prune_scores))
    /\ [](\A k \in DOMAIN pruned_outs : k >= 1 =>
             \A b \in DOMAIN pruned_outs[k] :
                 pruned_outs[k][b].patched = FirstEdges(k))
    /\ [][r_pc # "start" => prune_scores' = prune_scores]_vars

\* C7's case: two edges of equal score behind a later edge of higher score,
\* checkpoint 2 recorded in the second batch.
C7_Witness ==
    /\ NumEdges = 3
    /\ arg_prune_scores[1].score = arg_prune_scores[2].score
    /\ arg_prune_scores[3].score > arg_prune_scores[1].score
    /\ 2 \in DOMAIN pruned_outs /\ Len(pruned_outs[2]) = 2

\* C8: in the pass over the edges of one batch every patch mask is 0 or 1, an
\* edge's mask is assigned at most once and, when the pass is over, exactly
\* once, and a mask that is 1 is not returned to 0 during the pass.
C8_MaskSetOnce ==
    /\ [](\A e \in DOMAIN patch_mask :
             /\ patch_mask[e] \in {0, 1}
             /\ mask_writes[e] <= 1
             /\ (r_pc = "edges" /\ edge_idx = Len(prune_scores)) =>
                   mask_writes[e] = 1 /\ patch_mask[e] = 1)
    /\ [][r_pc = "edges" =>
             \A e \in DOMAIN patch_mask : patch_mask[e] = 1 => patch_mask'[e] = 1]_vars

\* C8's case: the pass of the second batch is over, two edges patched.
C8_Witness ==
    /\ r_pc = "edges" /\ edge_idx = Len(prune_scores) /\ NumEdges = 2
    /\ batch_idx = 2
    /\ \A e \in DOMAIN patch_mask : patch_mask[e] = 1

\* C9 as stated: with an input type or a patch type outside {clean, corrupt,
\* zero} run_pruned always ends in an error, and with both inside it raises
\* no configuration error.
C9_UnrecognizedTypeFatal ==
    r_pc = "done" =>
        /\ (experiment_type.input_type \notin ActTypes
              \/ experiment_type.patch_type \notin ActTypes) => r_result = "error"
        /\ (experiment_type.input_type \in ActTypes
              /\ experiment_type.patch_type \in ActTypes) => r_result = "returned"

\* C9 as the code has it: the types are looked at only when the data loader
\* yields a batch.  On a dataset of at least one batch an input type other
\* than clean or corrupt (zero included), or a patch type outside {clean,
\* corrupt, zero}, ends run_pruned in an error in the first batch and no
\* mapping is returned; on an empty dataset the empty mapping is returned
\* whatever the types; with input type clean or corrupt and patch type clean,
\* corrupt or zero no configuration error is raised.
C9_TypeErrors ==
    r_pc = "done" =>
        /\ ValidTypes => r_result = "returned"
        /\ (~ValidTypes /\ batch_idx >= 1) => r_result = "error" /\ batch_idx = 1
        /\ batch_idx = 0 => r_result = "returned" /\ DOMAIN pruned_outs = {}

\* C9's case: the assert on the patch type has failed after checkpoint 0 of
\* the first batch was recorded.
C9_Witness ==
    /\ r_pc = "done" /\ r_result = "error"
    /\ experiment_type = [input_type |-> "CLEAN", patch_type |-> "OTHER"]
    /\ 0 \in DOMAIN pruned_outs

(***************************************************************************)
(* autoencoder_model                                                       *)
(***************************************************************************)
\* What a hook slot of a block can hold: the HookPoint the model was built
\* with, a SparseAutoencoder, or a plain string.
HookPoint(l, slot) ==
    [kind |-> "HookPoint", layer |-> l, at |-> slot, input |-> "none", size |-> None]
StrValue(str) ==
    [kind |-> "str", layer |-> 0, at |-> "none", input |-> str, size |-> None]

\* load_autoencoder(hook_point, model, layer_idx, sae_input, pythia_size): the
\* autoencoder of that block and capture point, wrapping hook_point.
LoadAutoencoder(hook_point, l, input, size) ==
    [kind |-> "SparseAutoencoder", layer |-> l, at |-> hook_point.at,
     input |-> input, size |-> size]

\* Line 152: setattr(model.blocks[layer_idx].mlp, "hook_post", sae_input).
SetHookPost(bs, l, sae, input) ==
    [bs EXCEPT ![l + 1].hook_post = StrValue(input)]

\* Line 157: setattr(model.blocks[layer_idx], "hook_mlp_out", sae).
SetHookMlpOut(bs, l, sae, input) ==
    [bs EXCEPT ![l + 1].hook_mlp_out = sae]

\* autoencoder_model is called on a model of 0..MaxAeLayers blocks whose hook
\* slots hold their HookPoints.
AeInit ==
    /\ sae_input \in {"mlp_post_act", "resid_delta_mlp", "other"}
    /\ pythia_size \in {None, Some("2_8b")}
    /\ new_instance \in BOOLEAN
    /\ \E n \in 0 .. MaxAeLayers :
          caller_blocks = [b \in 1 .. n |->
              [hook_post |-> HookPoint(b - 1, "mlp.hook_post"),
               hook_mlp_out |-> HookPoint(b - 1, "hook_mlp_out")]]
    /\ blocks = caller_blocks
    /\ sparse_autoencoders = <<>>
    /\ layer_idx = 0
    /\ a_pc = "start"
    /\ a_result = "none"
    /\ wrapper = [wrapped_model |-> <<>>, sparse_autoencoders |-> <<>>]
    /\ PruneIdle /\ NodesIdle /\ RunIdle

\* Lines 145-147: the model is deep-copied when new_instance is set.
AeCopy ==
    /\ a_pc = "start"
    /\ blocks' = caller_blocks
    /\ sparse_autoencoders' = <<>>
    /\ a_pc' = "layers"
    /\ UNCHANGED <<sae_input, pythia_size, new_instance, caller_blocks, layer_idx,
                   a_result, wrapper>>
    /\ UNCHANGED <<pruneVars, nodeVars, runVars>>

\* Lines 149-152 and 158-159: one block with sae_input "mlp_post_act".
AePostActLayer ==
    /\ a_pc = "layers"
    /\ layer_idx < Len(blocks)
    /\ sae_input = "mlp_post_act"
    /\ LET hook_point == blocks[layer_idx + 1].hook_post
           sae == LoadAutoencoder(hook_point, layer_idx, sae_input, pythia_size)
       IN  /\ blocks' = SetHookPost(blocks, layer_idx, sae, sae_input)
           /\ sparse_autoencoders' = Append(sparse_autoencoders, sae)
    /\ caller_blocks' = IF new_instance THEN caller_blocks ELSE blocks'
    /\ layer_idx' = layer_idx + 1
    /\ UNCHANGED <<sae_input, pythia_size, new_instance, a_pc, a_result, wrapper>>
    /\ UNCHANGED <<pruneVars, nodeVars, runVars>>

\* Lines 153-159: one block with any other sae_input; the assert of line 154
\* lets only "resid_delta_mlp" through.
AeResidDeltaLayer ==
    /\ a_pc = "layers"
    /\ layer_idx < Len(blocks)
    /\ sae_input # "mlp_post_act"
    /\ IF sae_input = "resid_delta_mlp"
       THEN LET hook_point == blocks[layer_idx + 1].hook_mlp_out
                sae == LoadAutoencoder(hook_point, layer_idx, sae_input, pythia_size)
            IN  /\ blocks' = SetHookMlpOut(blocks, layer_idx, sae, sae_input)
                /\ sparse_autoencoders' = Append(sparse_autoencoders, sae)
                /\ caller_blocks' = IF new_instance THEN caller_blocks ELSE blocks'
                /\ layer_idx' = layer_idx + 1
                /\ UNCHANGED <<a_pc, a_result>>
       ELSE /\ a_result' = "error"
            /\ a_pc' = "done"
            /\ UNCHANGED <<blocks, sparse_autoencoders, caller_blocks, layer_idx>>
    /\ UNCHANGED <<sae_input, pythia_size, new_instance, wrapper>>
    /\ UNCHANGED <<pruneVars, nodeVars, runVars>>

\* Lines 160 and 22-29: the model and the list are wrapped and returned.
AeReturn ==
    /\ a_pc = "layers"
    /\ layer_idx = Len(blocks)
    /\ wrapper' = [wrapped_model |-> blocks, sparse_autoencoders |-> sparse_autoencoders]
    /\ a_result' = "returned"
    /\ a_pc' = "done"
    /\ UNCHANGED <<sae_input, pythia_size, new_instance, caller_blocks, blocks,
                   sparse_autoencoders, layer_idx>>
    /\ UNCHANGED <<pruneVars, nodeVars, runVars>>

AeNext == AeCopy \/ AePostActLayer \/ AeResidDeltaLayer \/ AeReturn

SpecAe == AeInit /\ [][AeNext]_vars

\* The slot of block b (from 1) that sae_input names.
HookSlot(bs, b) ==
    IF sae_input = "mlp_post_act" THEN bs[b].hook_post ELSE bs[b].hook_mlp_out

\* C10: for either capture point, when autoencoder_model has returned, every
\* block's hook slot holds the sparse autoencoder loaded for that block, which
\* is also that block's element of the wrapper's sparse_autoencoders.
C10_HookHoldsAutoencoder ==
    (a_result = "returned" /\ sae_input \in {"mlp_post_act", "resid_delta_mlp"}) =>
        /\ Len(wrapper.sparse_autoencoders) = Len(wrapper.wrapped_model)
        /\ \A b \in DOMAIN wrapper.wrapped_model :
              /\ wrapper.sparse_autoencoders[b].kind = "SparseAutoencoder"
              /\ wrapper.sparse_autoencoders[b].layer = b - 1
              /\ wrapper.sparse_autoencoders[b].input = sae_input
              /\ HookSlot(wrapper.wrapped_model, b) = wrapper.sparse_autoencoders[b]

====
